---- MODULE Spec2Model ----
(***************************************************************************)
(* Model of pdf_tag_remover (src/pdf_tag_remover/src/main.rs): the POST    *)
(* /remove_tags handler, remove_tags_from_pdf and process_content_stream.  *)
(*                                                                         *)
(* A Rust String is its UTF-8 bytes, so text is modelled as a sequence of  *)
(* byte values and regex spans are byte offsets, as in the regex crate.    *)
(* The byte domain of the model is ASCII, the invalid byte 0xFF and the    *)
(* three-byte encoding of U+FFFD that from_utf8_lossy produces.            *)
(***************************************************************************)
EXTENDS Integers, Sequences, FiniteSets, TLC

VARIABLES
    req,            \* the RemoveTagsRequest being served
    pc,             \* position of the handler / of the caller of the rewriter
    doc,            \* doc.objects of the loaded Document: object id -> Object
    tag_regex,      \* the compiled Regex (NoRegex before Regex::new)
    stream_ids,     \* object ids the loop of remove_tags_from_pdf still has to visit
    total_removed,  \* accumulator of remove_tags_from_pdf
    result,         \* value returned by remove_tags_from_pdf
    response,       \* HttpResponse produced by remove_tags
    removed_of,     \* history: object id -> count returned by its process_content_stream call
    stream,         \* the Stream a caller hands to process_content_stream
    before,         \* history: that Stream as it was before the latest call
    removed,        \* value returned by the latest process_content_stream call
    calls,          \* number of process_content_stream calls made on stream
    rewrote         \* history: some call on stream took the count > 0 branch

vars == <<req, pc, doc, tag_regex, stream_ids, total_removed, result, response,
          removed_of, stream, before, removed, calls, rewrote>>

(***************************************************************************)
(* Bounds                                                                  *)
(***************************************************************************)
MaxFrags == 3       \* a stream payload is a concatenation of at most MaxFrags fragments
MaxCalls == 2       \* process_content_stream calls made on one stream
NumObjects == 2     \* objects of a document

(***************************************************************************)
(* Bytes                                                                   *)
(***************************************************************************)
Ch == [lbrace |-> 123, rbrace |-> 125, lbrack |-> 91, rbrack |-> 93,
       space |-> 32, a |-> 97, newline |-> 10, bad |-> 255, zlib |-> 120]

\* U+FFFD REPLACEMENT CHARACTER in UTF-8
ReplacementChar == <<239, 191, 189>>

Frag == [tag     |-> <<Ch.lbrace, Ch.lbrace, Ch.a, Ch.rbrace, Ch.rbrace>>,
         btag    |-> <<Ch.lbrack, Ch.lbrack, Ch.a, Ch.rbrack, Ch.rbrack>>,
         open    |-> <<Ch.lbrace, Ch.lbrace>>,
         close   |-> <<Ch.rbrace, Ch.rbrace>>,
         rbrace  |-> <<Ch.rbrace>>,
         letter  |-> <<Ch.a>>,
         invalid |-> <<Ch.bad>>]

Fragments == {Frag[k] : k \in DOMAIN Frag}

RECURSIVE Concats(_)
Concats(n) ==
    IF n = 0 THEN {<<>>}
    ELSE LET shorter == Concats(n - 1)
         IN  shorter \cup {c \o f : c \in shorter, f \in Fragments}

\* payloads the model feeds to process_content_stream
Contents == Concats(MaxFrags)

(***************************************************************************)
(* lopdf Dictionary: a function whose DOMAIN is the set of present keys    *)
(***************************************************************************)
DictRemove(dict, key) == [k \in (DOMAIN dict) \ {key} |-> dict[k]]

DictSet(dict, key, value) == (key :> value) @@ dict

DictHas(dict, key) == key \in DOMAIN dict

(***************************************************************************)
(* Stream::decompress as called at main.rs:62.  FlateDecode is the only    *)
(* filter the model can decode; its codec is reduced to a stored block: a  *)
(* one-byte header followed by the data.  Any other filter, a missing      *)
(* filter or a payload without the header fails to decode.                 *)
(***************************************************************************)
Deflate(data) == <<Ch.zlib>> \o data

Inflate(content) ==
    IF Len(content) >= 1 /\ content[1] = Ch.zlib
    THEN [ok |-> TRUE, data |-> Tail(content)]
    ELSE [ok |-> FALSE, data |-> <<>>]

DecompressedContent(s) ==
    IF DictHas(s.dict, "Filter") /\ s.dict["Filter"] = "FlateDecode"
    THEN Inflate(s.content)
    ELSE [ok |-> FALSE, data |-> <<>>]

Decompress(s) ==
    LET d == DecompressedContent(s)
    IN  IF d.ok
        THEN [content |-> d.data,
              dict |-> DictSet(DictRemove(DictRemove(s.dict, "DecodeParms"), "Filter"),
                               "Length", Len(d.data))]
        ELSE s

(***************************************************************************)
(* String::from_utf8_lossy (main.rs:66)                                    *)
(***************************************************************************)
IsReplacementAt(bytes, i) ==
    /\ i + 2 <= Len(bytes)
    /\ SubSeq(bytes, i, i + 2) = ReplacementChar

RECURSIVE LossyFrom(_, _)
LossyFrom(bytes, i) ==
    IF i > Len(bytes) THEN <<>>
    ELSE IF bytes[i] < 128 THEN <<bytes[i]>> \o LossyFrom(bytes, i + 1)
    ELSE IF IsReplacementAt(bytes, i) THEN ReplacementChar \o LossyFrom(bytes, i + 3)
    ELSE ReplacementChar \o LossyFrom(bytes, i + 1)

FromUtf8Lossy(bytes) == LossyFrom(bytes, 1)

\* byte length of the character that starts at byte i of a valid UTF-8 text
CharLen(text, i) == IF text[i] < 128 THEN 1 ELSE 3

(***************************************************************************)
(* Regex (regex crate): the patterns a request can carry.  MatchEnd is the *)
(* exclusive end of the leftmost-first match that starts at byte i, or 0.  *)
(***************************************************************************)
DefaultPattern == "\\{\\{[^}]+\\}\\}"
BracketPattern == "\\[\\[.+?\\]\\]"
AnyCharPattern == "."
BrokenPattern == "("
NoPattern == "None"
NoRegex == "NoRegex"

\* patterns Regex::new compiles
ValidPatterns == {DefaultPattern, BracketPattern, AnyCharPattern}

\* Option<String> values of tag_pattern
PatternOptions == {NoPattern, BracketPattern, AnyCharPattern, BrokenPattern}

RECURSIVE FirstAt(_, _, _)
\* smallest j >= i with text[j] = b, or 0
FirstAt(text, b, i) ==
    IF i > Len(text) THEN 0
    ELSE IF text[i] = b THEN i
    ELSE FirstAt(text, b, i + 1)

RECURSIVE FirstPairAt(_, _, _)
\* smallest j >= i with text[j] = text[j+1] = b, or 0
FirstPairAt(text, b, i) ==
    IF i + 1 > Len(text) THEN 0
    ELSE IF text[i] = b /\ text[i + 1] = b THEN i
    ELSE FirstPairAt(text, b, i + 1)

StartsWithPair(text, b, i) ==
    /\ i + 1 <= Len(text)
    /\ text[i] = b
    /\ text[i + 1] = b

\* \{\{[^}]+\}\} : the greedy run of non-} stops at the first }, which must
\* come after at least one character and be followed by a second }
DefaultMatchEnd(text, i) ==
    IF ~StartsWithPair(text, Ch.lbrace, i) THEN 0
    ELSE LET j == FirstAt(text, Ch.rbrace, i + 2)
         IN  IF j > i + 2 /\ j + 1 <= Len(text) /\ text[j + 1] = Ch.rbrace
             THEN j + 2
             ELSE 0

\* \[\[.+?\]\] : the lazy run takes at least one character and stops at the
\* first ]] after it; . does not match a line feed
BracketMatchEnd(text, i) ==
    IF ~StartsWithPair(text, Ch.lbrack, i) THEN 0
    ELSE LET k == FirstPairAt(text, Ch.rbrack, i + 3)
         IN  IF k # 0 /\ \A n \in (i + 2)..(k - 1) : text[n] # Ch.newline
             THEN k + 2
             ELSE 0

\* . : one character other than a line feed
AnyCharMatchEnd(text, i) ==
    IF text[i] # Ch.newline THEN i + CharLen(text, i) ELSE 0

MatchEnd(re, text, i) ==
    IF re = DefaultPattern THEN DefaultMatchEnd(text, i)
    ELSE IF re = BracketPattern THEN BracketMatchEnd(text, i)
    ELSE AnyCharMatchEnd(text, i)

RECURSIVE FindFrom(_, _, _)
FindFrom(re, text, i) ==
    IF i > Len(text) THEN <<>>
    ELSE LET e == MatchEnd(re, text, i)
         IN  IF e # 0
             THEN <<[start |-> i, end |-> e]>> \o FindFrom(re, text, e)
             ELSE FindFrom(re, text, i + CharLen(text, i))

\* Regex::find_iter: the non-overlapping matches, left to right
FindIter(re, text) == FindFrom(re, text, 1)

RECURSIVE Repeat(_, _)
Repeat(b, n) == IF n <= 0 THEN <<>> ELSE <<b>> \o Repeat(b, n - 1)

\* variant: blanks the tag name only and keeps the two delimiters on each side
ReplacementInner(matched) ==
    IF Len(matched) < 4 THEN matched
    ELSE SubSeq(matched, 1, 2) \o Repeat(Ch.space, Len(matched) - 4)
         \o SubSeq(matched, Len(matched) - 1, Len(matched))

\* the closure of main.rs:75-78: " ".repeat(caps[0].len())
Replacement(matched) == Repeat(Ch.space, Len(matched))

RECURSIVE ReplaceFrom(_, _, _, _)
ReplaceFrom(text, ms, k, last) ==
    IF k > Len(ms) THEN SubSeq(text, last, Len(text))
    ELSE SubSeq(text, last, ms[k].start - 1)
         \o Replacement(SubSeq(text, ms[k].start, ms[k].end - 1))
         \o ReplaceFrom(text, ms, k + 1, ms[k].end)

\* Regex::replace_all with that closure
ReplaceAll(re, text) == ReplaceFrom(text, FindIter(re, text), 1, 1)

(***************************************************************************)
(* process_content_stream (main.rs:58-92): the stream as the call leaves   *)
(* it and the count it returns                                             *)
(***************************************************************************)
\* variant: rebuilds the dictionary with Length alone
CommitFreshDict(decompressed, modified) ==
    [content |-> modified, dict |-> ("Length" :> Len(modified))]

\* variant: forgets to drop DecodeParms
CommitKeepsParms(decompressed, modified) ==
    [content |-> modified,
     dict |-> DictSet(DictRemove(decompressed.dict, "Filter"), "Length", Len(modified))]

\* main.rs:82-88: the stream with the rewritten payload committed
Commit(decompressed, modified) ==
    [content |-> modified,
     dict |-> DictSet(DictRemove(DictRemove(decompressed.dict, "Filter"), "DecodeParms"),
                      "Length", Len(modified))]

\* main.rs:64-91, on the stream as decompress left it
ScanAndReplace(decompressed, re) ==
    LET content_str == FromUtf8Lossy(decompressed.content)
        original_count == Len(FindIter(re, content_str))
    IN  IF original_count > 0
        THEN [stream |-> Commit(decompressed, ReplaceAll(re, content_str)),
              removed |-> original_count]
        ELSE [stream |-> decompressed, removed |-> 0]

\* variant: gives up on a stream whose decode step failed
ProcessSkipUndecoded(s, re) ==
    IF DecompressedContent(s).ok
    THEN ScanAndReplace(Decompress(s), re)
    ELSE [stream |-> s, removed |-> 0]

ProcessContentStream(s, re) == ScanAndReplace(Decompress(s), re)

(***************************************************************************)
(* Streams a document can hold                                             *)
(***************************************************************************)
BaseDict(content) == ("Type" :> "XObject") @@ ("Length" :> Len(content))

ParmsOptions(dict) == {dict, DictSet(dict, "DecodeParms", "Predictor")}

\* an uncompressed stream
RawStream(c) == [content |-> c, dict |-> BaseDict(c)]

\* a stream whose payload is the FlateDecode encoding of c
FlateStream(c) ==
    [content |-> Deflate(c),
     dict |-> DictSet(BaseDict(Deflate(c)), "Filter", "FlateDecode")]

\* a stream that declares FlateDecode over a payload that is not an encoding
CorruptStream(c) ==
    [content |-> c, dict |-> DictSet(BaseDict(c), "Filter", "FlateDecode")]

\* a stream with a filter Stream::decompress does not decode
UndecodableStream(c) ==
    [content |-> c, dict |-> DictSet(BaseDict(c), "Filter", "DCTDecode")]

WithParms(s) == [s EXCEPT !.dict = DictSet(s.dict, "DecodeParms", "Predictor")]

StreamsOf(c) ==
    {RawStream(c)}
    \cup {s : s \in {FlateStream(c), CorruptStream(c), UndecodableStream(c)}}
    \cup {WithParms(s) : s \in {FlateStream(c), CorruptStream(c), UndecodableStream(c)}}

Streams == UNION {StreamsOf(c) : c \in Contents}

NoStream == [content |-> <<>>, dict |-> <<>>]
NoResult == [kind |-> "none"]
NoResponse == [status |-> 0]

(***************************************************************************)
(* Documents.  An Object is a record tagged with its variant; the content  *)
(* and dict of a variant that has none are empty.  Bytes in transit are    *)
(* tagged wrappers: a PDF file is well-formed or not and carries the       *)
(* object graph it encodes, a base64 text is valid or not and carries the  *)
(* bytes it encodes.                                                       *)
(***************************************************************************)
StreamObject(s) == [kind |-> "Stream", content |-> s.content, dict |-> s.dict]

StringObject(bytes) == [kind |-> "String", content |-> bytes, dict |-> <<>>]

DictionaryObject == [kind |-> "Dictionary", content |-> <<>>, dict |-> ("Type" :> "Page")]

StreamOf(obj) == [content |-> obj.content, dict |-> obj.dict]

SampleObjects ==
    {StringObject(Frag.tag),
     DictionaryObject,
     StreamObject(RawStream(Frag.tag)),
     StreamObject(RawStream(Frag.letter)),
     StreamObject(RawStream(Frag.btag \o Frag.tag)),
     StreamObject(RawStream(Frag.invalid \o Frag.tag)),
     StreamObject(FlateStream(Frag.letter \o Frag.tag \o Frag.tag)),
     StreamObject(WithParms(UndecodableStream(Frag.tag)))}

ObjectIds == 1..NumObjects

Documents == [ObjectIds -> SampleObjects]

\* Document::save_to and Document::load_mem
SaveTo(objects) == [wellformed |-> TRUE, objects |-> objects]

TruncatedPdf == [wellformed |-> FALSE, objects |-> <<>>]

LoadMem(pdf_data) ==
    IF pdf_data.wellformed
    THEN [ok |-> TRUE, doc |-> pdf_data.objects]
    ELSE [ok |-> FALSE, doc |-> <<>>]

PdfFiles == {TruncatedPdf} \cup {SaveTo(d) : d \in Documents}

\* base64 STANDARD.encode and STANDARD.decode
Base64Encode(bytes) == [valid |-> TRUE, data |-> bytes]

InvalidBase64 == [valid |-> FALSE, data |-> TruncatedPdf]

\* variant: never reports a decode failure
Base64DecodeLenient(text) == [ok |-> TRUE, data |-> text.data]

Base64Decode(text) == [ok |-> text.valid, data |-> text.data]

Requests ==
    [pdf_base64 : {InvalidBase64} \cup {Base64Encode(f) : f \in PdfFiles},
     tag_pattern : PatternOptions]

NoRequest == [pdf_base64 |-> InvalidBase64, tag_pattern |-> NoPattern]

\* variant: ignores the supplied pattern
EffectivePatternDefault(pattern) == DefaultPattern

\* pattern.unwrap_or(default) of main.rs:34
EffectivePattern(pattern) == IF pattern = NoPattern THEN DefaultPattern ELSE pattern

\* variant: never reports a compile failure
RegexNewLenient(pattern) == [ok |-> TRUE, regex |-> pattern]

\* Regex::new
RegexNew(pattern) ==
    IF pattern \in ValidPatterns
    THEN [ok |-> TRUE, regex |-> pattern]
    ELSE [ok |-> FALSE, regex |-> NoRegex]

ErrorResponse(status, message) ==
    [status |-> status, success |-> FALSE, message |-> message]

RemoveTagsResponse(modified_pdf, tags_removed) ==
    [status |-> 200, success |-> TRUE, message |-> "Removed tags from PDF",
     pdf_base64 |-> Base64Encode(modified_pdf), tags_removed |-> tags_removed]

(***************************************************************************)
(* Specification of one POST /remove_tags request                          *)
(***************************************************************************)
Init ==
    /\ req \in Requests
    /\ pc = "remove_tags"
    /\ doc = <<>>
    /\ tag_regex = NoRegex
    /\ stream_ids = {}
    /\ total_removed = 0
    /\ result = NoResult
    /\ response = NoResponse
    /\ removed_of = <<>>
    /\ stream = NoStream
    /\ before = NoStream
    /\ removed = 0
    /\ calls = 0
    /\ rewrote = FALSE

rewriterVars == <<stream, before, removed, calls, rewrote>>

\* the bytes remove_tags hands to remove_tags_from_pdf
PdfData == Base64Decode(req.pdf_base64).data

\* main.rs:98-107
DecodeBase64 ==
    /\ pc = "remove_tags"
    /\ IF Base64Decode(req.pdf_base64).ok
       THEN /\ pc' = "load_mem"
            /\ UNCHANGED response
       ELSE /\ response' = ErrorResponse(400, "Invalid base64 data")
            /\ pc' = "responded"
    /\ UNCHANGED <<req, doc, tag_regex, stream_ids, total_removed, result,
                   removed_of, rewriterVars>>

\* main.rs:30-31
LoadPdf ==
    /\ pc = "load_mem"
    /\ LET loaded == LoadMem(PdfData)
       IN  IF loaded.ok
           THEN /\ doc' = loaded.doc
                /\ pc' = "regex_new"
                /\ UNCHANGED result
           ELSE /\ result' = [kind |-> "Err", error |-> "Failed to load PDF"]
                /\ pc' = "returned"
                /\ UNCHANGED doc
    /\ UNCHANGED <<req, tag_regex, stream_ids, total_removed, response,
                   removed_of, rewriterVars>>

\* main.rs:34-35
CompileRegex ==
    /\ pc = "regex_new"
    /\ LET compiled == RegexNew(EffectivePattern(req.tag_pattern))
       IN  IF compiled.ok
           THEN /\ tag_regex' = compiled.regex
                /\ pc' = "collect"
                /\ UNCHANGED result
           ELSE /\ result' = [kind |-> "Err", error |-> "Invalid regex pattern"]
                /\ pc' = "returned"
                /\ UNCHANGED tag_regex
    /\ UNCHANGED <<req, doc, stream_ids, total_removed, response, removed_of,
                   rewriterVars>>

\* main.rs:37-40
CollectIds ==
    /\ pc = "collect"
    /\ total_removed' = 0
    /\ stream_ids' = DOMAIN doc
    /\ pc' = "for"
    /\ UNCHANGED <<req, doc, tag_regex, result, response, removed_of, rewriterVars>>

\* variant: rewrites whatever object the id resolves to
VisitResultAnyObject(obj, re) ==
    LET r == ProcessContentStream(StreamOf(obj), re)
    IN  [obj |-> [kind |-> obj.kind, content |-> r.stream.content, dict |-> r.stream.dict],
         removed |-> r.removed]

\* what one iteration of the loop of main.rs:42-47 does with an object
VisitResult(obj, re) ==
    IF obj.kind = "Stream"
    THEN LET r == ProcessContentStream(StreamOf(obj), re)
         IN  [obj |-> StreamObject(r.stream), removed |-> r.removed]
    ELSE [obj |-> obj, removed |-> 0]

\* main.rs:42-47; the ids are taken in any order, the key order included
VisitObject ==
    /\ pc = "for"
    /\ \E obj_id \in stream_ids :
          LET v == VisitResult(doc[obj_id], tag_regex)
          IN  /\ doc' = [doc EXCEPT ![obj_id] = v.obj]
              /\ total_removed' = total_removed + v.removed
              /\ removed_of' = (obj_id :> v.removed) @@ removed_of
              /\ stream_ids' = stream_ids \ {obj_id}
    /\ UNCHANGED <<req, pc, tag_regex, result, response, rewriterVars>>

\* main.rs:50-54; save_to returns an io::Result
SavePdf ==
    /\ pc = "for"
    /\ stream_ids = {}
    /\ \E saved \in BOOLEAN :
          result' = IF saved
                    THEN [kind |-> "Ok", output |-> SaveTo(doc), count |-> total_removed]
                    ELSE [kind |-> "Err", error |-> "Failed to save PDF"]
    /\ pc' = "returned"
    /\ UNCHANGED <<req, doc, tag_regex, stream_ids, total_removed, response,
                   removed_of, rewriterVars>>

\* main.rs:112-132
Respond ==
    /\ pc = "returned"
    /\ response' = IF result.kind = "Ok"
                   THEN RemoveTagsResponse(result.output, result.count)
                   ELSE ErrorResponse(500, result.error)
    /\ pc' = "responded"
    /\ UNCHANGED <<req, doc, tag_regex, stream_ids, total_removed, result,
                   removed_of, rewriterVars>>

Next ==
    \/ DecodeBase64
    \/ LoadPdf
    \/ CompileRegex
    \/ CollectIds
    \/ VisitObject
    \/ SavePdf
    \/ Respond

Spec == Init /\ [][Next]_vars

(***************************************************************************)
(* Specification of the stream rewriter: a caller holds one Stream and a   *)
(* compiled Regex and calls process_content_stream on it repeatedly.       *)
(***************************************************************************)
StreamInit ==
    /\ stream \in Streams
    /\ tag_regex \in ValidPatterns
    /\ before = stream
    /\ removed = 0
    /\ calls = 0
    /\ rewrote = FALSE
    /\ pc = "rewriter"
    /\ req = NoRequest
    /\ doc = <<>>
    /\ stream_ids = {}
    /\ total_removed = 0
    /\ result = NoResult
    /\ response = NoResult
    /\ removed_of = <<>>

CallProcessContentStream ==
    /\ pc = "rewriter"
    /\ calls < MaxCalls
    /\ LET r == ProcessContentStream(stream, tag_regex)
       IN  /\ stream' = r.stream
           /\ removed' = r.removed
           /\ rewrote' = (rewrote \/ r.removed > 0)
    /\ before' = stream
    /\ calls' = calls + 1
    /\ UNCHANGED <<req, pc, doc, tag_regex, stream_ids, total_removed, result,
                   response, removed_of>>

StreamNext == CallProcessContentStream

StreamSpec == StreamInit /\ [][StreamNext]_vars

(***************************************************************************)
(* Properties of the stream rewriter (StreamSpec)                          *)
(***************************************************************************)
Called == calls >= 1

\* the payload the latest call scanned: the stream's payload after its decode step
DecodedBefore == Decompress(before).content

\* the matches the latest call found
SpansBefore == FindIter(tag_regex, FromUtf8Lossy(DecodedBefore))

InSpan(ms, i) == \E k \in 1..Len(ms) : ms[k].start <= i /\ i < ms[k].end

\* C1: a call that finds zero matches returns 0 and leaves the stream's payload
\* and every dictionary entry as they were before the call, compressed or not.
NoOpPreservation ==
    (Called /\ Len(SpansBefore) = 0) => (removed = 0 /\ stream = before)

\* C2: a call that finds a match leaves a payload of the byte length of the
\* decoded payload, equal to it outside the matched spans and made of space
\* bytes inside them, for payloads that are not valid UTF-8 too.
LengthPreservation ==
    (Called /\ removed > 0) =>
        /\ Len(stream.content) = Len(DecodedBefore)
        /\ \A i \in 1..Len(DecodedBefore) :
              stream.content[i] = IF InSpan(SpansBefore, i) THEN Ch.space
                                  ELSE DecodedBefore[i]

\* C3: once a call has rewritten the payload, Length equals the byte length
\* of the current payload and the dictionary has neither Filter nor
\* DecodeParms, whether the decode step succeeded or failed.
MetadataConsistency ==
    rewrote =>
        /\ DictHas(stream.dict, "Length")
        /\ stream.dict["Length"] = Len(stream.content)
        /\ ~DictHas(stream.dict, "Filter")
        /\ ~DictHas(stream.dict, "DecodeParms")

\* a call rewrote a stream whose filter could not be decoded and that carried
\* DecodeParms, and changed the payload's length
MetadataWitness ==
    /\ calls = 1
    /\ removed > 0
    /\ DictHas(before.dict, "Filter")
    /\ DictHas(before.dict, "DecodeParms")
    /\ ~DecompressedContent(before).ok
    /\ Len(stream.content) # Len(before.content)

\* C5 as claimed: with any pattern, a call on a stream that an earlier call
\* rewrote returns 0 and leaves the stream unchanged.
IdempotenceAnyPattern ==
    [][rewrote => (removed' = 0 /\ stream' = stream)]_vars

TagPatterns == {DefaultPattern, BracketPattern}

\* C5 amended: with the default pattern or the custom pattern \[\[.+?\]\], a
\* call on a stream that an earlier call rewrote returns 0 and leaves the
\* stream unchanged.
IdempotenceTagPatterns ==
    [][(rewrote /\ tag_regex \in TagPatterns) => (removed' = 0 /\ stream' = stream)]_vars

\* a second pass has run on a stream the first pass rewrote
IdempotenceWitness ==
    /\ calls = 2
    /\ rewrote
    /\ removed = 0
    /\ tag_regex \in TagPatterns
    /\ ~DictHas(stream.dict, "Filter")
    /\ \E k \in 1..Len(stream.content) : stream.content[k] = Ch.space

(***************************************************************************)
(* Properties of a request (Spec)                                          *)
(***************************************************************************)
\* the object graph the request's PDF bytes encode
Original == PdfData.objects

\* the text process_content_stream scans in a stream
DecodedText(s) == FromUtf8Lossy(Decompress(s).content)

\* number of matches of re in an object taken on its own
MatchesIn(obj, re) ==
    IF obj.kind = "Stream" THEN Len(FindIter(re, DecodedText(StreamOf(obj)))) ELSE 0

RECURSIVE SumMatches(_, _, _)
SumMatches(objects, ids, re) ==
    IF ids = {} THEN 0
    ELSE LET id == CHOOSE x \in ids : TRUE
         IN  MatchesIn(objects[id], re) + SumMatches(objects, ids \ {id}, re)

\* the loop of remove_tags_from_pdf has visited every object
AllVisited ==
    /\ pc \in {"for", "returned", "responded"}
    /\ tag_regex # NoRegex
    /\ stream_ids = {}

\* C4: the total returned is the sum over the document's stream objects, each
\* once, of the matches in its decoded text; other objects add 0; the order
\* of the visits does not matter.
CountAccuracy ==
    /\ AllVisited =>
          /\ DOMAIN removed_of = DOMAIN Original
          /\ total_removed = SumMatches(Original, DOMAIN Original, tag_regex)
    /\ result.kind = "Ok" =>
          result.count = SumMatches(Original, DOMAIN Original, tag_regex)

\* a document of a two-match compressed stream and a string object holding a tag
CountWitness ==
    /\ result.kind = "Ok"
    /\ result.count = 2
    /\ tag_regex = DefaultPattern
    /\ \E id \in DOMAIN Original : Original[id] = StringObject(Frag.tag)
    /\ \E id \in DOMAIN Original : Original[id].kind = "Stream"

DecodeFailed(obj) == obj.kind = "Stream" /\ ~DecompressedContent(StreamOf(obj)).ok

\* C6: a stream whose decode step fails is scanned as stored, its matches are
\* counted and replaced, the loop goes on to the remaining objects and the
\* result is a success unless serialization itself fails.
DecodeDegradation ==
    /\ \A id \in DOMAIN removed_of :
          DecodeFailed(Original[id]) =>
              LET text == FromUtf8Lossy(Original[id].content)
                  n == Len(FindIter(tag_regex, text))
              IN  /\ removed_of[id] = n
                  /\ n > 0 => doc[id].content = ReplaceAll(tag_regex, text)
    /\ (pc \in {"returned", "responded"} /\ tag_regex # NoRegex) =>
          /\ DOMAIN removed_of = DOMAIN Original
          /\ result.kind = "Ok" \/ result.error = "Failed to save PDF"

\* a stream with an undecodable filter had its raw tag blanked, every object
\* was visited and the request succeeded
DegradationWitness ==
    /\ pc = "responded"
    /\ result.kind = "Ok"
    /\ \E id \in DOMAIN Original :
          /\ Original[id] = StreamObject(WithParms(UndecodableStream(Frag.tag)))
          /\ removed_of[id] = 1
          /\ doc[id].content = Repeat(Ch.space, 5)
    /\ \E id \in DOMAIN Original : ~DecodeFailed(Original[id])

RewrittenKeys == {"Filter", "DecodeParms", "Length"}

SameOtherEntries(d1, d2) ==
    /\ (DOMAIN d1) \ RewrittenKeys = (DOMAIN d2) \ RewrittenKeys
    /\ \A k \in (DOMAIN d1) \ RewrittenKeys : d1[k] = d2[k]

\* C7: after the visit the document has the object ids it had, every object
\* that is not a stream is unchanged, and a stream differs at most in its
\* payload and its Filter, DecodeParms and Length entries.
GraphFrame ==
    AllVisited =>
        /\ DOMAIN doc = DOMAIN Original
        /\ \A id \in DOMAIN Original :
              IF Original[id].kind = "Stream"
              THEN /\ doc[id].kind = "Stream"
                   /\ SameOtherEntries(doc[id].dict, Original[id].dict)
              ELSE doc[id] = Original[id]

\* a string object that holds a tag sits next to a stream that was rewritten
FrameWitness ==
    /\ AllVisited
    /\ \E id \in DOMAIN Original :
          /\ Original[id] = StringObject(Frag.tag)
          /\ doc[id] = Original[id]
    /\ \E id \in DOMAIN Original :
          /\ Original[id].kind = "Stream"
          /\ removed_of[id] > 0
          /\ doc[id].content # Original[id].content

Overlaps(m, ms) == \E k \in 1..Len(ms) : m.start < ms[k].end /\ ms[k].start < m.end

\* C8: a supplied pattern replaces the default: only its matches are counted
\* and blanked, and a {{...}} span it does not touch keeps its bytes; with no
\* pattern supplied the default pattern is the one used.
PatternSelection ==
    /\ (tag_regex # NoRegex /\ req.tag_pattern = NoPattern) => tag_regex = DefaultPattern
    /\ (tag_regex # NoRegex /\ req.tag_pattern # NoPattern) => tag_regex = req.tag_pattern
    /\ \A id \in DOMAIN removed_of :
          Original[id].kind = "Stream" =>
              LET text == DecodedText(StreamOf(Original[id]))
                  used == IF req.tag_pattern = NoPattern THEN DefaultPattern
                          ELSE req.tag_pattern
                  hits == FindIter(used, text)
                  tags == FindIter(DefaultPattern, text)
              IN  /\ removed_of[id] = Len(hits)
                  /\ Len(hits) = 0 => doc[id].content = Decompress(StreamOf(Original[id])).content
                  /\ Len(hits) > 0 =>
                        /\ Len(doc[id].content) = Len(text)
                        /\ \A i \in 1..Len(text) :
                              InSpan(hits, i) => doc[id].content[i] = Ch.space
                        /\ \A k \in 1..Len(tags) :
                              ~Overlaps(tags[k], hits) =>
                                  SubSeq(doc[id].content, tags[k].start, tags[k].end - 1)
                                      = SubSeq(text, tags[k].start, tags[k].end - 1)

\* [[a]]{{a}} under the custom pattern \[\[.+?\]\]: one match, {{a}} intact
SelectionWitness ==
    /\ req.tag_pattern = BracketPattern
    /\ \E id \in DOMAIN removed_of :
          /\ Original[id] = StreamObject(RawStream(Frag.btag \o Frag.tag))
          /\ removed_of[id] = 1
          /\ doc[id].content = Repeat(Ch.space, 5) \o Frag.tag

\* remove_tags_from_pdf was called and has returned
Returned == pc \in {"returned", "responded"} /\ result # NoResult

\* C9: the core returns bytes and a count or an error, never both; a parse
\* failure is returned before the pattern is compiled, a pattern failure
\* before any object is visited or modified, and a serialization failure
\* carries no output bytes.
CoreFailures ==
    /\ result.kind \in {"none", "Ok", "Err"}
    /\ result.kind = "Ok" => DOMAIN result = {"kind", "output", "count"}
    /\ result.kind = "Err" => DOMAIN result = {"kind", "error"}
    /\ (Returned /\ ~PdfData.wellformed) =>
          /\ result = [kind |-> "Err", error |-> "Failed to load PDF"]
          /\ tag_regex = NoRegex
          /\ removed_of = <<>>
    /\ (Returned /\ PdfData.wellformed
          /\ EffectivePattern(req.tag_pattern) \notin ValidPatterns) =>
          /\ result = [kind |-> "Err", error |-> "Invalid regex pattern"]
          /\ removed_of = <<>>
          /\ doc = Original
    /\ (result.kind = "Err" /\ pc = "responded") => "pdf_base64" \notin DOMAIN response

\* a pattern that does not compile over a document whose streams hold tags
FailureWitness ==
    /\ pc = "responded"
    /\ result = [kind |-> "Err", error |-> "Invalid regex pattern"]
    /\ \E id \in DOMAIN doc : MatchesIn(doc[id], DefaultPattern) > 0

\* C10: invalid base64 gets a client error and never reaches the core; a core
\* failure gets a server error without pdf_base64; otherwise the response is
\* a success carrying the core's count; one response per request.
RequestOutcome ==
    /\ pc # "responded" => response = NoResponse
    /\ pc = "responded" =>
          IF ~req.pdf_base64.valid
          THEN /\ response.status = 400
               /\ response.success = FALSE
               /\ result = NoResult
               /\ doc = <<>>
               /\ tag_regex = NoRegex
          ELSE IF result.kind = "Err"
          THEN /\ response.status = 500
               /\ response.success = FALSE
               /\ response.message = result.error
               /\ "pdf_base64" \notin DOMAIN response
          ELSE /\ result.kind = "Ok"
               /\ response.status = 200
               /\ response.success = TRUE
               /\ response.tags_removed = result.count
               /\ response.pdf_base64 = Base64Encode(result.output)

\* a success response that reports removed tags
OutcomeWitness ==
    /\ pc = "responded"
    /\ response.status = 200
    /\ response.tags_removed > 0

====
